---------------------------- MODULE Spec2Model ----------------------------
(***************************************************************************)
(* Model of octopus/feature-branch.py: the provisioning and teardown of a  *)
(* feature branch (environment, lifecycle, channel, target assignment) on  *)
(* an Octopus server, wrapped by the tenacity retry decorator.             *)
(*                                                                         *)
(* Strings (names and identifiers) are sequences of one-character strings  *)
(* so that str.strip() and the server's partialName filter are computed.   *)
(* The Python value None is the one-element sequence <<"None">>.           *)
(***************************************************************************)
EXTENDS Integers, Sequences, FiniteSets, TLC

\* ------------------------------------------------------------ bounds
\* number of invocations of the script in one behaviour
MaxRuns == 2
\* number of non-zero polls of cancel_tasks an attempt performs before it
\* waits for the server to complete a task
MaxPolls == 2

\* ------------------------------------------------------------ program constants
\* stop_after_attempt(3)
MaxAttempts == 3
\* stop_after_delay(60), in tenths of a second
MaxDelay == 600
\* wait_fixed(0.4), in tenths of a second
WaitFixed == 4
\* time.sleep(10), in tenths of a second
SleepTime == 100

\* ------------------------------------------------------------ values
None == <<"None">>
Id(n) == <<"Id", ToString(n)>>

\* names held by the server
SpaceName == <<"s">>
ProjectName == <<"p">>
BranchName == <<"f">>
OtherName == <<"f", "1">>
TargetName == <<"t">>
StepName == <<"d">>
PackageName == <<"k">>

\* the values of the command line arguments, line 24-47
SpaceArgs == {SpaceName, <<"x">>}
ProjectArgs == {ProjectName, <<"x">>}
BranchArgs == {BranchName, <<" ", "f", " ">>}
TargetArgs == {None, <<" ">>, <<"t", " ">>, <<"u">>}

\* ------------------------------------------------------------ strings
RECURSIVE lstrip(_)
lstrip(s) ==
    IF s # <<>> /\ Head(s) = " " THEN lstrip(Tail(s)) ELSE s

RECURSIVE rstrip(_)
rstrip(s) ==
    IF s # <<>> /\ s[Len(s)] = " " THEN rstrip(SubSeq(s, 1, Len(s) - 1)) ELSE s

\* str.strip()
strip(s) == rstrip(lstrip(s))

\* q in s, as the server's partialName filter decides it
Contains(s, q) ==
    \E i \in 1..(Len(s) + 1) :
        /\ i + Len(q) - 1 <= Len(s)
        /\ SubSeq(s, i, i + Len(q) - 1) = q

Min(a, b) == IF a < b THEN a ELSE b

\* ------------------------------------------------------------ state
VARIABLES
    \* the server
    spaces,         \* <<[Id, Name]>>
    projects,       \* <<[Id, Name]>>
    environments,   \* <<[Id, Name]>>
    lifecycles,     \* <<[Id, Name, Phases]>>
    channels,       \* <<[Id, Name, Project, ProjectId, LifecycleId, Tag]>>
    releases,       \* <<[Id, ChannelId]>>
    deployments,    \* <<[TaskId, ChannelId, IsCompleted, Cancelled]>>
    machines,       \* <<[Id, Name, EnvironmentIds]>>
    nextId,         \* the next identifier the server assigns
    \* the script
    args,           \* the parsed command line
    pc,             \* the statement of the orchestrator that runs next
    attempt,        \* the attempt number of the retry wrapper
    elapsed,        \* tenths of a second since the first attempt started
    polls,          \* non-zero returns of cancel_tasks in this attempt
    space_id, project_id, environment_id, lifecycle_id, channel_id,
    calls,          \* the mutating calls of this attempt, in order
    exc,            \* the exception that ended the last attempt
    run,            \* invocations started
    last,           \* what the invocation that ended last did
    binder          \* two concurrent calls of the Target Binder, see Shared

server == <<spaces, projects, environments, lifecycles, channels, releases,
            deployments, machines, nextId>>
locals == <<space_id, project_id, environment_id, lifecycle_id, channel_id>>
vars == <<spaces, projects, environments, lifecycles, channels, releases,
          deployments, machines, nextId, args, pc, attempt, elapsed, polls,
          space_id, project_id, environment_id, lifecycle_id, channel_id,
          calls, exc, run, last, binder>>

\* ------------------------------------------------------------ the server's collections
\* GET <collection>?partialName=q&take=1000
ListPartial(items, q) == SelectSeq(items, LAMBDA a : Contains(a.Name, q))

\* the server stores a name without its surrounding white space
StoredName(name) == strip(name)

Remove(items, id) == SelectSeq(items, LAMBDA a : a.Id # id)

\* ------------------------------------------------------------ the locators
get_space_id(space_name) ==
    LET json == ListPartial(spaces, strip(space_name))
        filtered_items == SelectSeq(json, LAMBDA a : a.Name = strip(space_name))
    IN  IF Len(filtered_items) = 0 THEN None ELSE filtered_items[1].Id

\* get_resource_id that takes the first item of the partial-name filter
get_resource_id_partial(sid, items, resource_name) ==
    IF sid = None THEN None
    ELSE LET json == ListPartial(items, strip(resource_name))
         IN  IF Len(json) = 0 THEN None ELSE json[1].Id

\* get_resource_id comparing with the name as given, not stripped
get_resource_id_unstripped(sid, items, resource_name) ==
    IF sid = None THEN None
    ELSE LET json == ListPartial(items, strip(resource_name))
             filtered_items == SelectSeq(json, LAMBDA a : a.Name = resource_name)
         IN  IF Len(filtered_items) = 0 THEN None ELSE filtered_items[1].Id

get_resource_id(sid, items, resource_name) ==
    IF sid = None THEN None
    ELSE LET json == ListPartial(items, strip(resource_name))
             filtered_items == SelectSeq(json, LAMBDA a : a.Name = strip(resource_name))
         IN  IF Len(filtered_items) = 0 THEN None ELSE filtered_items[1].Id

\* find_channel that takes the first item of the partial-name filter
find_channel_partial(sid, pid, branch_name) ==
    IF sid = None THEN None
    ELSE LET ofProject == SelectSeq(channels, LAMBDA a : a.Project = pid)
             json == ListPartial(ofProject, strip(branch_name))
         IN  IF Len(json) = 0 THEN None ELSE json[1].Id

find_channel(sid, pid, branch_name) ==
    IF sid = None THEN None
    ELSE LET ofProject == SelectSeq(channels, LAMBDA a : a.Project = pid)
             json == ListPartial(ofProject, strip(branch_name))
             filtered_items == SelectSeq(json, LAMBDA a : a.Name = strip(branch_name))
         IN  IF Len(filtered_items) = 0 THEN None ELSE filtered_items[1].Id


\* list.index(x): the position of the first x, counted from 0; a list
\* that does not hold x makes Python raise ValueError
Has(list, x) == \E i \in 1..Len(list) : list[i] = x
index(list, x) == (CHOOSE i \in 1..Len(list) :
                      list[i] = x /\ \A j \in 1..(i - 1) : list[j] # x) - 1

\* ------------------------------------------------------------ the initial server
\* the resources of another branch, which share the prefix of the name
OtherEnvironment == [Id |-> Id(3), Name |-> OtherName]
OtherLifecycle == [Id |-> Id(4), Name |-> OtherName, Phases |-> <<Id(3)>>]
OtherChannel == [Id |-> Id(5), Name |-> OtherName, Project |-> Id(2),
                 ProjectId |-> Id(2), LifecycleId |-> Id(4), Tag |-> OtherName]
OtherRelease == [Id |-> Id(6), ChannelId |-> Id(5)]
OtherDeployment == [TaskId |-> Id(7), ChannelId |-> Id(5),
                    IsCompleted |-> FALSE, Cancelled |-> FALSE]
\* the resources of the branch, when they exist before the first invocation
BranchEnvironment == [Id |-> Id(9), Name |-> BranchName]
BranchLifecycle == [Id |-> Id(10), Name |-> BranchName, Phases |-> <<Id(9)>>]
BranchChannel == [Id |-> Id(11), Name |-> BranchName, Project |-> Id(2),
                  ProjectId |-> Id(2), LifecycleId |-> Id(10), Tag |-> BranchName]
BranchRelease == [Id |-> Id(12), ChannelId |-> Id(11)]
BranchDeployments ==
    { <<>>,
      <<[TaskId |-> Id(13), ChannelId |-> Id(11), IsCompleted |-> TRUE, Cancelled |-> FALSE],
        [TaskId |-> Id(14), ChannelId |-> Id(11), IsCompleted |-> FALSE, Cancelled |-> FALSE]>> }
FirstFreeId == 15
\* a call of the Target Binder that has not started
NotCalled == [op |-> "none", pc |-> "idle", environment_id |-> None,
              target |-> None, exc |-> "None", wrote |-> FALSE]

Init ==
    /\ spaces = <<[Id |-> Id(1), Name |-> SpaceName]>>
    /\ projects = <<[Id |-> Id(2), Name |-> ProjectName]>>
    /\ \E level \in 0..3 :
          /\ environments = <<OtherEnvironment>> \o
                (IF level >= 1 THEN <<BranchEnvironment>> ELSE <<>>)
          /\ lifecycles = <<OtherLifecycle>> \o
                (IF level >= 2 THEN <<BranchLifecycle>> ELSE <<>>)
          /\ channels = <<OtherChannel>> \o
                (IF level >= 3 THEN <<BranchChannel>> ELSE <<>>)
          /\ releases = <<OtherRelease>> \o
                (IF level >= 3 THEN <<BranchRelease>> ELSE <<>>)
          /\ \E d \in (IF level >= 3 THEN BranchDeployments ELSE {<<>>}) :
                deployments = <<OtherDeployment>> \o d
          /\ \E assigned \in (IF level >= 1 THEN BOOLEAN ELSE {FALSE}) :
                machines = <<[Id |-> Id(8), Name |-> TargetName,
                              EnvironmentIds |-> <<Id(3)>> \o
                                 (IF assigned THEN <<Id(9)>> ELSE <<>>)]>>
    /\ nextId = FirstFreeId
    /\ args \in [action : {"none"}, octopus_space : SpaceArgs,
                 octopus_project : ProjectArgs, branch_name : BranchArgs,
                 deployment_step_name : {StepName},
                 deployment_package_name : {PackageName},
                 target_name : TargetArgs]
    /\ pc = "idle"
    /\ attempt = 0
    /\ elapsed = 0
    /\ polls = 0
    /\ space_id = None /\ project_id = None /\ environment_id = None
    /\ lifecycle_id = None /\ channel_id = None
    /\ calls = <<>>
    /\ exc = "None"
    /\ run = 0
    /\ last = [action |-> "none", outcome |-> "none", stopped |-> "idle",
               environment_id |-> None,
               lifecycle_id |-> None, channel_id |-> None]
    /\ binder = [i \in 1..2 |-> NotCalled]

\* ------------------------------------------------------------ control
Call(op, kind, id, ok) ==
    [op |-> op, kind |-> kind, id |-> id, ok |-> ok, count |-> 0]

\* the value cancel_tasks returned to the polling loop
Return(n) ==
    [op |-> "RETURN", kind |-> "cancel_tasks", id |-> None,
     ok |-> TRUE, count |-> n]

\* the statement returns and the orchestrator goes on with statement next
Goto(next, c) ==
    /\ pc' = next
    /\ calls' = c
    /\ UNCHANGED <<binder, args, attempt, elapsed, exc, run, last>>

\* the invocation ends: the process exits
Finish(outcome, c) ==
    /\ pc' = "idle"
    /\ calls' = c
    /\ exc' = IF outcome \in {"Done", "Crashed"} THEN exc ELSE outcome
    /\ last' = [action |-> args.action, outcome |-> outcome, stopped |-> pc,
                environment_id |-> environment_id,
                lifecycle_id |-> lifecycle_id,
                channel_id |-> channel_id]
    /\ UNCHANGED <<binder, args, attempt, elapsed, polls, run, locals>>

\* a wrapper that retries on every exception
retry_any(e) == TRUE

\* retry_if_exception_type(OctopusApiError)
retry(e) == e = "OctopusApiError"

\* a wrapper without stop_after_attempt
stop_delay_only == elapsed >= MaxDelay

\* stop_after_delay(60) | stop_after_attempt(3)
stop == elapsed >= MaxDelay \/ attempt >= MaxAttempts

\* an exception leaves the orchestrator and reaches the retry wrapper; the
\* log of the attempt is kept until the next attempt resolves the space
retry_on_communication_error(e, c) ==
    IF retry(e)
    THEN IF stop
         THEN Finish("RetryError", c)
         ELSE /\ pc' = "get_space_id"
              /\ attempt' = attempt + 1
              /\ elapsed' = Min(elapsed + WaitFixed, MaxDelay)
              /\ polls' = 0
              /\ space_id' = None /\ project_id' = None /\ environment_id' = None
              /\ lifecycle_id' = None /\ channel_id' = None
              /\ calls' = c
              /\ exc' = e
              /\ UNCHANGED <<binder, args, run, last>>
    ELSE Finish(e, c)

\* the script is started: python feature-branch.py --action ...
Start ==
    /\ pc = "idle"
    /\ run < MaxRuns
    /\ \E a \in {"create", "delete"} : args' = [args EXCEPT !.action = a]
    /\ run' = run + 1
    /\ pc' = "get_space_id"
    /\ attempt' = 1
    /\ elapsed' = 0
    /\ polls' = 0
    /\ space_id' = None /\ project_id' = None /\ environment_id' = None
    /\ lifecycle_id' = None /\ channel_id' = None
    /\ calls' = <<>>
    /\ exc' = "None"
    /\ UNCHANGED <<server, last, binder>>

\* the process is killed between two statements of the orchestrator
Crash ==
    /\ pc # "idle"
    /\ Finish("Crashed", calls)
    /\ UNCHANGED server

\* ------------------------------------------------------------ both orchestrators
ResolveSpace ==
    /\ pc = "get_space_id"
    /\ space_id' = get_space_id(args.octopus_space)
    /\ pc' = "get_project_id"
    /\ calls' = <<>>
    /\ exc' = "None"
    /\ UNCHANGED <<binder, args, attempt, elapsed, run, last>>
    /\ UNCHANGED <<server, polls, project_id, environment_id, lifecycle_id, channel_id>>

ResolveProject ==
    /\ pc = "get_project_id"
    /\ project_id' = get_resource_id(space_id, projects, args.octopus_project)
    /\ Goto(IF args.action = "create" THEN "create_environment" ELSE "cancel_tasks", calls)
    /\ UNCHANGED <<server, polls, space_id, environment_id, lifecycle_id, channel_id>>

\* ------------------------------------------------------------ provisioning
\* create_environment whose result is not bound to environment_id
create_environment_unbound ==
    /\ pc = "create_environment"
    /\ Goto("create_lifecycle", calls)
    /\ UNCHANGED <<server, polls, locals>>

\* line 342, create_environment(space_id, args.branch_name)
create_environment ==
    /\ pc = "create_environment"
    /\ LET found == get_resource_id(space_id, environments, args.branch_name)
       IN  IF found # None
           THEN /\ environment_id' = found
                /\ Goto("create_lifecycle", calls)
                /\ UNCHANGED <<server, polls, space_id, project_id, lifecycle_id, channel_id>>
           ELSE IF space_id = None
           THEN \* line 109: str + None
                /\ retry_on_communication_error("TypeError", calls)
                /\ UNCHANGED server
           ELSE \E ok \in BOOLEAN :
                IF ok
                THEN /\ environments' = Append(environments,
                            [Id |-> Id(nextId), Name |-> StoredName(args.branch_name)])
                     /\ nextId' = nextId + 1
                     /\ environment_id' = Id(nextId)
                     /\ Goto("create_lifecycle",
                             Append(calls, Call("POST", "environments", Id(nextId), TRUE)))
                     /\ UNCHANGED <<spaces, projects, lifecycles, channels, releases,
                                    deployments, machines, polls, space_id, project_id,
                                    lifecycle_id, channel_id>>
                ELSE /\ retry_on_communication_error("OctopusApiError",
                             Append(calls, Call("POST", "environments", None, FALSE)))
                     /\ UNCHANGED server

\* line 343, create_lifecycle(space_id, environment_id, args.branch_name)
create_lifecycle ==
    /\ pc = "create_lifecycle"
    /\ LET found == get_resource_id(space_id, lifecycles, args.branch_name)
       IN  IF found # None
           THEN /\ lifecycle_id' = found
                /\ Goto("create_channel", calls)
                /\ UNCHANGED <<server, polls, space_id, project_id, environment_id, channel_id>>
           ELSE IF space_id = None
           THEN \* line 149: str + None
                /\ retry_on_communication_error("TypeError", calls)
                /\ UNCHANGED server
           ELSE \E ok \in BOOLEAN :
                IF ok
                THEN /\ lifecycles' = Append(lifecycles,
                            [Id |-> Id(nextId), Name |-> StoredName(args.branch_name),
                             Phases |-> <<environment_id>>])
                     /\ nextId' = nextId + 1
                     /\ lifecycle_id' = Id(nextId)
                     /\ Goto("create_channel",
                             Append(calls, Call("POST", "lifecycles", Id(nextId), TRUE)))
                     /\ UNCHANGED <<spaces, projects, environments, channels, releases,
                                    deployments, machines, polls, space_id, project_id,
                                    environment_id, channel_id>>
                ELSE /\ retry_on_communication_error("OctopusApiError",
                             Append(calls, Call("POST", "lifecycles", None, FALSE)))
                     /\ UNCHANGED server

\* line 344, create_channel(space_id, project_id, lifecycle_id, step, package, branch)
create_channel ==
    /\ pc = "create_channel"
    /\ IF space_id # None /\ project_id = None
       THEN \* line 162: str + None in find_channel
            /\ retry_on_communication_error("TypeError", calls)
            /\ UNCHANGED server
       ELSE LET found == find_channel(space_id, project_id, args.branch_name)
            IN  IF found # None
                THEN /\ channel_id' = found
                     /\ Goto("assign_target", calls)
                     /\ UNCHANGED <<server, polls, space_id, project_id, environment_id,
                                    lifecycle_id>>
                ELSE IF space_id = None
                THEN \* line 201: str + None
                     /\ retry_on_communication_error("TypeError", calls)
                     /\ UNCHANGED server
                ELSE \E ok \in BOOLEAN :
                     IF ok
                     THEN /\ channels' = Append(channels,
                                 [Id |-> Id(nextId),
                                  Name |-> StoredName(args.branch_name),
                                  Project |-> project_id,
                                  ProjectId |-> args.deployment_step_name,
                                  LifecycleId |-> lifecycle_id,
                                  Tag |-> args.branch_name])
                          /\ nextId' = nextId + 1
                          /\ channel_id' = Id(nextId)
                          /\ Goto("assign_target",
                                  Append(calls, Call("POST", "channels", Id(nextId), TRUE)))
                          /\ UNCHANGED <<spaces, projects, environments, lifecycles,
                                         releases, deployments, machines, polls, space_id,
                                         project_id, environment_id, lifecycle_id>>
                     ELSE /\ retry_on_communication_error("OctopusApiError",
                                  Append(calls, Call("POST", "channels", None, FALSE)))
                          /\ UNCHANGED server

\* the machine with this identifier, fetched by GET /machines/<id>
Machine(id) == (SelectSeq(machines, LAMBDA m : m.Id = id))[1]

\* PUT /machines/<id> with the whole representation
PutMachine(target) ==
    [i \in 1..Len(machines) |->
        IF machines[i].Id = target.Id THEN target ELSE machines[i]]

\* line 346, assign_target(space_id, environment_id, args.target_name)
assign_target ==
    /\ pc = "assign_target"
    /\ IF space_id # None /\ args.target_name = None
       THEN \* line 211-212 pass, then line 73: None.strip()
            /\ retry_on_communication_error("AttributeError", calls)
            /\ UNCHANGED server
       ELSE LET target_id == get_resource_id(space_id, machines, args.target_name)
            IN  IF target_id = None
                THEN /\ Finish("Done", calls)
                     /\ UNCHANGED server
                ELSE \E get_response \in BOOLEAN :
                     IF ~get_response
                     THEN /\ retry_on_communication_error("OctopusApiError", calls)
                          /\ UNCHANGED server
                     ELSE LET target == Machine(target_id)
                          IN  IF ~Has(target.EnvironmentIds, environment_id)
                              THEN \* line 224: list.index raises
                                   /\ retry_on_communication_error("ValueError", calls)
                                   /\ UNCHANGED server
                              ELSE IF index(target.EnvironmentIds, environment_id) = -1
                              THEN \E put_response \in BOOLEAN :
                                   LET updated == [target EXCEPT !.EnvironmentIds =
                                                      Append(@, environment_id)]
                                       c == Append(calls, Call("PUT", "machines",
                                                               target_id, put_response))
                                   IN  IF put_response
                                       THEN /\ machines' = PutMachine(updated)
                                            /\ Finish("Done", c)
                                            /\ UNCHANGED <<spaces, projects, environments,
                                                  lifecycles, channels, releases,
                                                  deployments, nextId>>
                                       ELSE /\ retry_on_communication_error(
                                                  "OctopusApiError", c)
                                            /\ UNCHANGED server
                              ELSE /\ Finish("Done", calls)
                                   /\ UNCHANGED server

\* ------------------------------------------------------------ teardown
\* a cancel_tasks that counts the tasks and sends no request
CancelCalls_none(active, n) == <<>>

\* the cancel requests for the first n tasks of the list
RECURSIVE CancelCalls(_, _)
CancelCalls(active, n) ==
    IF n = 0 THEN <<>>
    ELSE Append(CancelCalls(active, n - 1),
                Call("POST", "cancel", active[n].TaskId, TRUE))

\* POST /tasks/<id>/cancel for each of the tasks
Cancel(items, ids) ==
    [i \in 1..Len(items) |->
        IF items[i].TaskId \in ids THEN [items[i] EXCEPT !.Cancelled = TRUE]
        ELSE items[i]]

\* a polling loop that leaves after the first poll
AfterPoll_break(tasks) == "delete_releases"

\* a polling loop with the test of the count inverted
AfterPoll_inverted(tasks) == IF tasks # 0 THEN "delete_releases" ELSE "sleep"

\* line 356-358, if tasks == 0: break, else sleep and poll again
AfterPoll(tasks) == IF tasks = 0 THEN "delete_releases" ELSE "sleep"

\* line 355, tasks = cancel_tasks(space_id, project_id, args.branch_name)
cancel_tasks ==
    /\ pc = "cancel_tasks"
    /\ IF space_id # None /\ project_id = None
       THEN \* line 162: str + None in find_channel
            /\ retry_on_communication_error("TypeError", calls)
            /\ UNCHANGED server
       ELSE LET channel == find_channel(space_id, project_id, args.branch_name)
                json == IF channel = None THEN <<>>
                        ELSE SelectSeq(deployments, LAMBDA d : d.ChannelId = channel)
                active == SelectSeq(json, LAMBDA d : ~d.IsCompleted)
                number_active_tasks == Len(active)
            IN  /\ polls < MaxPolls \/ number_active_tasks = 0
                /\ \/ \* every cancel request succeeds
                      /\ deployments' = Cancel(deployments,
                             {active[i].TaskId : i \in 1..Len(active)})
                      /\ polls' = IF number_active_tasks = 0 THEN polls ELSE polls + 1
                      /\ Goto(AfterPoll(number_active_tasks),
                              Append(calls \o CancelCalls(active, Len(active)),
                                     Return(number_active_tasks)))
                      /\ UNCHANGED <<spaces, projects, environments, lifecycles, channels,
                                     releases, machines, nextId, locals>>
                   \/ \* the request for the k-th active task fails
                      \E k \in 1..Len(active) :
                         /\ deployments' = Cancel(deployments,
                                {active[i].TaskId : i \in 1..(k - 1)})
                         /\ retry_on_communication_error("OctopusApiError",
                                Append(calls \o CancelCalls(active, k - 1),
                                       Call("POST", "cancel", active[k].TaskId, FALSE)))
                         /\ UNCHANGED <<spaces, projects, environments, lifecycles,
                                        channels, releases, machines, nextId>>

\* line 358, time.sleep(10)
sleep ==
    /\ pc = "sleep"
    /\ elapsed' = Min(elapsed + SleepTime, MaxDelay)
    /\ pc' = "cancel_tasks"
    /\ UNCHANGED <<server, binder, args, attempt, polls, locals, calls, exc, run, last>>

\* the delete requests for the first n releases of the list
RECURSIVE DeleteCalls(_, _)
DeleteCalls(channel_releases, n) ==
    IF n = 0 THEN <<>>
    ELSE Append(DeleteCalls(channel_releases, n - 1),
                Call("DELETE", "releases", channel_releases[n].Id, TRUE))

\* delete_releases that returns without a delete call
delete_releases_skipped ==
    /\ pc = "delete_releases"
    /\ Goto("delete_channel", calls)
    /\ UNCHANGED <<server, polls, locals>>

\* line 360, delete_releases(space_id, project_id, args.branch_name)
delete_releases ==
    /\ pc = "delete_releases"
    /\ IF space_id # None /\ project_id = None
       THEN /\ retry_on_communication_error("TypeError", calls)
            /\ UNCHANGED server
       ELSE LET channel == find_channel(space_id, project_id, args.branch_name)
                channel_releases ==
                    IF channel = None THEN <<>>
                    ELSE SelectSeq(releases, LAMBDA a : a.ChannelId = channel)
                Deleted(n) == {channel_releases[i].Id : i \in 1..n}
            IN  \/ /\ releases' = SelectSeq(releases,
                          LAMBDA a : a.Id \notin Deleted(Len(channel_releases)))
                   /\ Goto("delete_channel",
                           calls \o DeleteCalls(channel_releases, Len(channel_releases)))
                   /\ UNCHANGED <<spaces, projects, environments, lifecycles, channels,
                                  deployments, machines, nextId, polls, locals>>
                \/ \E k \in 1..Len(channel_releases) :
                   /\ releases' = SelectSeq(releases, LAMBDA a : a.Id \notin Deleted(k - 1))
                   /\ retry_on_communication_error("OctopusApiError",
                          Append(calls \o DeleteCalls(channel_releases, k - 1),
                                 Call("DELETE", "releases", channel_releases[k].Id, FALSE)))
                   /\ UNCHANGED <<spaces, projects, environments, lifecycles, channels,
                                  deployments, machines, nextId>>

\* delete_channel that returns without the delete call
delete_channel_skipped ==
    /\ pc = "delete_channel"
    /\ Goto("delete_lifecycle", calls)
    /\ UNCHANGED <<server, polls, locals>>

\* line 361, delete_channel(space_id, project_id, args.branch_name)
delete_channel ==
    /\ pc = "delete_channel"
    /\ IF space_id # None /\ project_id = None
       THEN /\ retry_on_communication_error("TypeError", calls)
            /\ UNCHANGED server
       ELSE LET channel == find_channel(space_id, project_id, args.branch_name)
            IN  IF channel = None
                THEN /\ Goto("delete_lifecycle", calls)
                     /\ UNCHANGED <<server, polls, locals>>
                ELSE \E ok \in BOOLEAN :
                     IF ok
                     THEN /\ channels' = Remove(channels, channel)
                          /\ Goto("delete_lifecycle",
                                  Append(calls, Call("DELETE", "channels", channel, TRUE)))
                          /\ UNCHANGED <<spaces, projects, environments, lifecycles,
                                         releases, deployments, machines, nextId, polls,
                                         locals>>
                     ELSE /\ retry_on_communication_error("OctopusApiError",
                                  Append(calls, Call("DELETE", "channels", channel, FALSE)))
                          /\ UNCHANGED server

\* line 362, delete_lifecycle(space_id, args.branch_name)
delete_lifecycle ==
    /\ pc = "delete_lifecycle"
    /\ LET lifecycle == get_resource_id(space_id, lifecycles, args.branch_name)
       IN  IF lifecycle = None
           THEN /\ Goto("unassign_target", calls)
                /\ UNCHANGED <<server, polls, locals>>
           ELSE \E ok \in BOOLEAN :
                IF ok
                THEN /\ lifecycles' = Remove(lifecycles, lifecycle)
                     /\ Goto("unassign_target",
                             Append(calls, Call("DELETE", "lifecycles", lifecycle, TRUE)))
                     /\ UNCHANGED <<spaces, projects, environments, channels, releases,
                                    deployments, machines, nextId, polls, locals>>
                ELSE /\ retry_on_communication_error("OctopusApiError",
                             Append(calls, Call("DELETE", "lifecycles", lifecycle, FALSE)))
                     /\ UNCHANGED server

\* line 363, unassign_target(space_id, args.branch_name, args.target_name)
unassign_target ==
    /\ pc = "unassign_target"
    /\ IF args.target_name = None \/ strip(args.target_name) = <<>>
       THEN /\ Goto("delete_environment", calls)
            /\ UNCHANGED <<server, polls, locals>>
       ELSE LET environment == get_resource_id(space_id, environments, args.branch_name)
                target_id == get_resource_id(space_id, machines, args.target_name)
            IN  IF environment = None \/ target_id = None
                THEN /\ Goto("delete_environment", calls)
                     /\ UNCHANGED <<server, polls, locals>>
                ELSE \E get_response \in BOOLEAN :
                     IF ~get_response
                     THEN /\ retry_on_communication_error("OctopusApiError", calls)
                          /\ UNCHANGED server
                     ELSE LET target == Machine(target_id)
                          IN  IF ~Has(target.EnvironmentIds, environment)
                              THEN \* line 327: list.index raises
                                   /\ retry_on_communication_error("ValueError", calls)
                                   /\ UNCHANGED server
                              ELSE IF index(target.EnvironmentIds, environment) # -1
                              THEN \E put_response \in BOOLEAN :
                                   LET updated == [target EXCEPT !.EnvironmentIds =
                                          SelectSeq(@, LAMBDA a : a # environment)]
                                       c == Append(calls, Call("PUT", "machines",
                                                               target_id, put_response))
                                   IN  IF put_response
                                       THEN /\ machines' = PutMachine(updated)
                                            /\ Goto("delete_environment", c)
                                            /\ UNCHANGED <<spaces, projects, environments,
                                                  lifecycles, channels, releases,
                                                  deployments, nextId, polls, locals>>
                                       ELSE /\ retry_on_communication_error(
                                                  "OctopusApiError", c)
                                            /\ UNCHANGED server
                              ELSE /\ Goto("delete_environment", calls)
                                   /\ UNCHANGED <<server, polls, locals>>

\* delete_environment that returns without the delete call
delete_environment_skipped ==
    /\ pc = "delete_environment"
    /\ Finish("Done", calls)
    /\ UNCHANGED server

\* line 364, delete_environment(space_id, args.branch_name)
delete_environment ==
    /\ pc = "delete_environment"
    /\ LET environment == get_resource_id(space_id, environments, args.branch_name)
       IN  IF environment = None
           THEN /\ Finish("Done", calls)
                /\ UNCHANGED server
           ELSE \E ok \in BOOLEAN :
                IF ok
                THEN /\ environments' = Remove(environments, environment)
                     /\ Finish("Done",
                               Append(calls, Call("DELETE", "environments", environment, TRUE)))
                     /\ UNCHANGED <<spaces, projects, lifecycles, channels, releases,
                                    deployments, machines, nextId>>
                ELSE /\ retry_on_communication_error("OctopusApiError",
                             Append(calls, Call("DELETE", "environments", environment, FALSE)))
                     /\ UNCHANGED server

\* ------------------------------------------------------------ the server's own step
\* a deployment task reaches its terminal state; only cancel_tasks reads the
\* state of a task, so the step is taken while the polling loop runs; the
\* deployment of the other branch keeps running
CompleteTask ==
    /\ pc \in {"cancel_tasks", "sleep"}
    /\ \E i \in 1..Len(deployments) :
          /\ ~deployments[i].IsCompleted
          /\ deployments[i] # OtherDeployment
          /\ deployments' = [deployments EXCEPT ![i].IsCompleted = TRUE]
    /\ UNCHANGED <<spaces, projects, environments, lifecycles, channels, releases,
                   machines, nextId, binder, args, pc, attempt, elapsed, polls, locals,
                   calls, exc, run, last>>

Next ==
    \/ Start
    \/ Crash
    \/ ResolveSpace
    \/ ResolveProject
    \/ create_environment
    \/ create_lifecycle
    \/ create_channel
    \/ assign_target
    \/ cancel_tasks
    \/ sleep
    \/ delete_releases
    \/ delete_channel
    \/ delete_lifecycle
    \/ unassign_target
    \/ delete_environment
    \/ CompleteTask

Spec == Init /\ [][Next]_vars

\* one invocation of the script with --action delete
StartDelete ==
    /\ run = 0
    /\ args.action = "none"
    /\ Start
    /\ args'.action = "delete"

NextTeardown ==
    \/ StartDelete
    \/ Crash
    \/ ResolveSpace
    \/ ResolveProject
    \/ cancel_tasks
    \/ sleep
    \/ delete_releases
    \/ delete_channel
    \/ delete_lifecycle
    \/ unassign_target
    \/ delete_environment
    \/ CompleteTask

\* the interpreter runs the polling loop on, and the server completes tasks
FairTeardown ==
    /\ Init /\ [][NextTeardown]_vars
    /\ WF_vars(cancel_tasks) /\ WF_vars(sleep) /\ WF_vars(CompleteTask)

\* ------------------------------------------------------------ properties
\* the resources named after the branch
Named(items) == SelectSeq(items, LAMBDA a : a.Name = strip(args.branch_name))
\* what the command line's space and project names resolve to
ResolvedSpace == get_space_id(args.octopus_space)
ResolvedProject == get_resource_id(ResolvedSpace, projects, args.octopus_project)
ScopeResolves == ResolvedSpace # None /\ ResolvedProject # None
Mutating(c) == c.op \in {"POST", "PUT", "DELETE"}
NoCall(log, ops) == \A i \in 1..Len(log) : log[i].op \notin ops
Running(action) == pc # "idle" /\ args.action = action

\* C1: when the previous invocation was a create that obtained the three
\* identifiers, the next create invocation obtains the same environment,
\* lifecycle and channel identifiers and issues no POST.
C1_ProvisioningIdempotent ==
    (Running("create") /\ last.action = "create" /\ last.channel_id # None) =>
        /\ environment_id \in {None, last.environment_id}
        /\ lifecycle_id \in {None, last.lifecycle_id}
        /\ channel_id \in {None, last.channel_id}
        /\ NoCall(calls, {"POST"})

\* the second create has found all three resources the first one created
\* for a branch name given with surrounding blanks
C1_Witness ==
    /\ Running("create") /\ last.action = "create"
    /\ pc = "assign_target"
    /\ args.branch_name # strip(args.branch_name)
    /\ last.environment_id = Id(FirstFreeId) /\ environment_id = Id(FirstFreeId)
    /\ last.lifecycle_id = Id(FirstFreeId + 1) /\ lifecycle_id = Id(FirstFreeId + 1)
    /\ last.channel_id = Id(FirstFreeId + 2) /\ channel_id = Id(FirstFreeId + 2)

\* C2: after a delete invocation that ended Done, the next delete invocation
\* finds no channel, lifecycle or environment of the branch, issues no delete,
\* update or cancel call and raises nothing.
C2_TeardownIdempotent ==
    [][(Running("delete") /\ last.action = "delete" /\ last.outcome = "Done") =>
          /\ find_channel(ResolvedSpace, ResolvedProject, args.branch_name) = None
          /\ get_resource_id(ResolvedSpace, lifecycles, args.branch_name) = None
          /\ get_resource_id(ResolvedSpace, environments, args.branch_name) = None
          /\ ScopeResolves => /\ Named(channels) = <<>>
                              /\ Named(lifecycles) = <<>>
                              /\ Named(environments) = <<>>
          /\ NoCall(calls', {"POST", "PUT", "DELETE"})
          /\ exc' = "None"
          /\ (pc' = "idle" => last'.outcome \in {"Done", "Crashed"})]_vars

\* the second delete reaches its last statement after a first delete that
\* cancelled a task of the branch channel and removed the resources
C2_Witness ==
    /\ Running("delete") /\ last.action = "delete" /\ last.outcome = "Done"
    /\ pc = "delete_environment"
    /\ ScopeResolves
    /\ \E i \in 1..Len(deployments) :
          deployments[i].ChannelId = BranchChannel.Id /\ deployments[i].Cancelled

\* the exceptions that are not the server-communication fault
OwnFaults == {"ValueError", "TypeError", "AttributeError"}

\* the statements of delete_feature_branch before which a run can stop,
\* from the end of the task polling on
TeardownBoundaries == {"delete_releases", "delete_channel", "delete_lifecycle",
                       "unassign_target", "delete_environment"}

\* C3: a delete invocation that follows a delete invocation stopped at a step
\* boundary (after the task polling, releases, channel, lifecycle, target
\* unassign or environment deletion) raises no exception of its own.
C3_TeardownRerunnable ==
    [][(Running("delete") /\ last.action = "delete"
          /\ last.stopped \in TeardownBoundaries) =>
          exc' \notin OwnFaults]_vars

\* C4: with the space and the project resolved, a create invocation that
\* follows a create invocation stopped after creating a prefix of
\* (environment, lifecycle, channel) posts no resource that exists, and ends
\* Done unless the server fails a call.
C4_ProvisioningResumes ==
    [][(Running("create") /\ last.action = "create" /\ last.outcome # "Done"
          /\ last.environment_id # None /\ ScopeResolves) =>
          /\ \A i \in (Len(calls) + 1)..Len(calls') :
                calls'[i].op = "POST" =>
                   /\ calls'[i].kind = "environments" => Named(environments) = <<>>
                   /\ calls'[i].kind = "lifecycles" => Named(lifecycles) = <<>>
                   /\ calls'[i].kind = "channels" => Named(channels) = <<>>
          /\ exc' \notin OwnFaults]_vars

\* no two resources of a collection carry the same name
Unique(items) ==
    \A i, j \in 1..Len(items) : items[i].Name = items[j].Name => i = j
Ids(items) == {items[i].Id : i \in 1..Len(items)}

\* C5: with the space and the project resolved, across the attempts of a
\* wrapped run no name is created twice, every delete call addresses a
\* resource that exists, and an attempt started by the retry wrapper raises
\* nothing but the server-communication fault.
C5_RestartSafe ==
    [][(pc # "idle" /\ ScopeResolves) =>
          /\ Unique(environments') /\ Unique(lifecycles') /\ Unique(channels')
          /\ \A i \in (Len(calls) + 1)..Len(calls') :
                calls'[i].op = "DELETE" =>
                   calls'[i].id \in Ids(environments) \cup Ids(lifecycles)
                                    \cup Ids(channels) \cup Ids(releases)
          /\ attempt >= 2 => exc' \notin OwnFaults]_vars

\* the position of a teardown call in the reverse dependency order
Rank(c) ==
    IF c.op = "DELETE" /\ c.kind = "channels" THEN 1
    ELSE IF c.op = "DELETE" /\ c.kind = "lifecycles" THEN 2
    ELSE IF c.op = "PUT" /\ c.kind = "machines" THEN 3
    ELSE IF c.op = "DELETE" /\ c.kind = "environments" THEN 4
    ELSE 0

\* C6: in an attempt of delete_feature_branch the channel delete comes before
\* the lifecycle delete, that before the write of the target, that before the
\* environment delete; and the step that removes the environment is taken
\* when no lifecycle and no channel of the project carries the branch's name.
C6_ReverseDependencyOrder ==
    [][Running("delete") =>
          /\ \A i, j \in 1..Len(calls') :
                (i < j /\ Rank(calls'[i]) > 0 /\ Rank(calls'[j]) > 0) =>
                   Rank(calls'[i]) < Rank(calls'[j])
          /\ \A i \in (Len(calls) + 1)..Len(calls') :
                /\ Rank(calls'[i]) >= 2 =>
                      Named(SelectSeq(channels, LAMBDA a : a.Project = project_id)) = <<>>
                /\ Rank(calls'[i]) >= 3 => Named(lifecycles) = <<>>
          /\ Named(environments') # Named(environments) =>
                /\ Named(lifecycles) = <<>>
                /\ Named(SelectSeq(channels, LAMBDA a : a.Project = project_id)) = <<>>]_vars

\* a delete attempt has issued all four calls: channel, lifecycle, target
\* write and environment, after the releases
C6_Witness ==
    /\ args.action = "delete" /\ pc = "idle" /\ last.outcome = "Done"
    /\ \E i, j, k, l \in 1..Len(calls) :
          /\ i < j /\ j < k /\ k < l
          /\ Rank(calls[i]) = 1 /\ Rank(calls[j]) = 2
          /\ Rank(calls[k]) = 3 /\ Rank(calls[l]) = 4
          /\ calls[l].ok

\* C7: in the log of an attempt of delete_feature_branch every delete call
\* comes after a cancel_tasks return of 0, and a cancel_tasks return of a
\* non-zero count is followed by the calls of the next cancel_tasks (or by
\* nothing yet, while the loop sleeps or polls).
C7_ConvergenceGate ==
    Running("delete") =>
        /\ \A i \in 1..Len(calls) :
              calls[i].op = "DELETE" =>
                 \E j \in 1..(i - 1) : calls[j].op = "RETURN" /\ calls[j].count = 0
        /\ \A i \in 1..Len(calls) :
              (calls[i].op = "RETURN" /\ calls[i].count # 0) =>
                 IF i = Len(calls) THEN pc \in {"sleep", "cancel_tasks"}
                 ELSE calls[i + 1].op = "RETURN" \/ calls[i + 1].kind = "cancel"

\* a delete attempt polled a non-zero count, slept, polled 0 and deleted
C7_Witness ==
    /\ Running("delete")
    /\ \E i, j, k \in 1..Len(calls) :
          /\ i < j /\ j < k
          /\ calls[i].op = "RETURN" /\ calls[i].count = 1
          /\ calls[j].op = "RETURN" /\ calls[j].count = 0
          /\ calls[k].op = "DELETE" /\ calls[k].kind = "channels"

\* the returns of cancel_tasks in the log, and the cancel requests that
\* precede the i-th entry since the return before it
Returns(log) == {i \in 1..Len(log) : log[i].op = "RETURN"}
Requests(log, i) ==
    {j \in 1..(i - 1) :
        /\ log[j].kind = "cancel"
        /\ \A r \in Returns(log) : ~(j < r /\ r < i)}
InLoop == pc \in {"cancel_tasks", "sleep"}

\* C8: the polling loop of delete_feature_branch is left once the server has
\* completed the tasks; each return of cancel_tasks counts the cancel
\* requests of its round, the return of 0 is the last one, and the loop is
\* left after as many calls as there are rounds up to that one.
C8_ConvergenceTermination ==
    /\ [](Running("delete") =>
            /\ \A i \in Returns(calls) :
                  /\ calls[i].count = Cardinality(Requests(calls, i))
                  /\ calls[i].count = 0 => \A r \in Returns(calls) : r <= i
            /\ (~InLoop /\ pc # "get_space_id" /\ pc # "get_project_id") =>
                  /\ Cardinality(Returns(calls)) = polls + 1
                  /\ \E i \in Returns(calls) : calls[i].count = 0)
    /\ (Running("delete") /\ InLoop) ~> ~InLoop

\* the loop was left after two rounds that cancelled a task and one that
\* found none
C8_Witness ==
    /\ Running("delete") /\ pc = "delete_releases"
    /\ polls = 2
    /\ Cardinality(Returns(calls)) = 3

\* the step issued a call that the server answered with a non-success status
CallFailed == Len(calls') > Len(calls) /\ ~calls'[Len(calls')].ok
\* the step made the retry wrapper start a new attempt
Restarted == pc # "idle" /\ pc' = "get_space_id"

\* C9: the retry wrapper never starts a fourth attempt: when a call of the
\* third attempt fails the run ends and the fault reaches the caller.
C9_RetryBound ==
    [][pc # "idle" =>
          /\ attempt' <= MaxAttempts
          /\ (CallFailed /\ attempt = MaxAttempts) =>
                (pc' = "idle" /\ last'.outcome = "RetryError" /\ ~Restarted)]_vars

\* three attempts failed, within the 60 seconds, and the fault has surfaced
C9_Witness ==
    /\ pc = "idle" /\ last.outcome = "RetryError"
    /\ attempt = MaxAttempts
    /\ elapsed < MaxDelay

\* C10: a new attempt is started only by OctopusApiError; an attempt that
\* ends with another exception ends the run with that exception.
C10_RetrySelectivity ==
    [][pc # "idle" =>
          /\ Restarted => (exc' = "OctopusApiError" /\ attempt' = attempt + 1)
          /\ attempt' # attempt => Restarted
          /\ exc' \in OwnFaults =>
                (pc' = "idle" /\ attempt' = attempt /\ last'.outcome = exc')]_vars

\* a second attempt, started after OctopusApiError, ended the run with
\* ValueError
C10_Witness ==
    /\ pc = "idle" /\ attempt = 2
    /\ exc = "ValueError" /\ last.outcome = "ValueError"

\* the number of times x occurs in the list
Count(list, x) == Cardinality({i \in 1..Len(list) : list[i] = x})
\* the step issued no call
NoNewCall == calls' = calls
\* the command line names no target: None, empty or blank
NoTargetName == args.target_name = None \/ strip(args.target_name) = <<>>

\* C11: assign_target called for a target that exists raises no exception of
\* its own, whether or not the target holds the environment id, and when it
\* returns the target holds the environment id exactly once.
C11_TargetBindIdempotent ==
    [][(pc = "assign_target" /\ ~NoTargetName
          /\ get_resource_id(space_id, machines, args.target_name) # None) =>
          /\ exc' \notin OwnFaults
          /\ (pc' = "idle" /\ last'.outcome = "Done") =>
                Count(Machine(get_resource_id(space_id, machines,
                                              args.target_name)).EnvironmentIds',
                      environment_id) = 1]_vars

\* C12: with no target name, assign_target and unassign_target issue no call,
\* change nothing on the server, raise nothing and return.
C12_NoTargetNameNoOp ==
    [][(pc \in {"assign_target", "unassign_target"} /\ NoTargetName) =>
          /\ NoNewCall
          /\ server' = server
          /\ exc' \notin OwnFaults
          /\ pc' = "idle" => last'.outcome \in {"Done", "Crashed"}]_vars

\* C13: when the space name or the project name does not resolve, no step
\* after the two lookups issues a call or raises an exception.
C13_ScopeFailureShortCircuits ==
    [][(pc \notin {"idle", "get_space_id", "get_project_id"} /\ ~ScopeResolves) =>
          /\ NoNewCall
          /\ exc' \notin OwnFaults
          /\ pc' = "idle" => last'.outcome \in {"Done", "Crashed"}]_vars

\* the calls the step has added to the log of the attempt
NewCalls == {i \in 1..Len(calls') : i > Len(calls)}
Posts(kind) == {i \in NewCalls : calls'[i].op = "POST" /\ calls'[i].kind = kind}

\* C14: a lifecycle create call is made with an environment id that is not
\* None and names an environment the server already holds, and the created
\* lifecycle has that id as its single phase; a channel create call is made
\* with a lifecycle id that is not None and names a lifecycle the server
\* already holds, and the created channel refers to it.
C14_ProvisioningDependencyOrder ==
    [][Running("create") =>
          /\ \A i \in Posts("lifecycles") :
                /\ environment_id # None
                /\ environment_id \in Ids(environments)
                /\ calls'[i].ok =>
                      lifecycles'[Len(lifecycles')].Phases = <<environment_id>>
          /\ \A i \in Posts("channels") :
                /\ lifecycle_id # None
                /\ lifecycle_id \in Ids(lifecycles)
                /\ calls'[i].ok =>
                      channels'[Len(channels')].LifecycleId = lifecycle_id]_vars

\* one attempt created the environment, then the lifecycle with it, then the
\* channel with the lifecycle
C14_Witness ==
    /\ Running("create") /\ pc = "assign_target"
    /\ Len(calls) = 3
    /\ calls[1].kind = "environments" /\ calls[2].kind = "lifecycles"
    /\ calls[3].kind = "channels"
    /\ lifecycles[Len(lifecycles)].Phases = <<calls[1].id>>
    /\ channels[Len(channels)].LifecycleId = calls[2].id

\* ------------------------------------------------------------ the locators alone
\* the names queried, and the lists of at most two items the partial-name
\* filter may return, with names that equal, extend or contain the query
Queries == {<<"f">>, <<" ", "f", " ">>, <<"f", "1">>, <<"1">>, <<"x">>, <<" ">>}
ItemNames == {<<"f">>, <<"f", "1">>, <<"1", "f">>}
ItemLists ==
    {<<>>} \cup {<<[Id |-> Id(1), Name |-> a]>> : a \in ItemNames}
           \cup {<<[Id |-> Id(1), Name |-> a], [Id |-> Id(2), Name |-> b]>> :
                    a \in ItemNames, b \in ItemNames}
SpaceLists == {<<>>, <<[Id |-> Id(1), Name |-> <<"f">>]>>,
               <<[Id |-> Id(1), Name |-> <<"f", "1">>], [Id |-> Id(2), Name |-> <<"f">>]>>}
\* the channels of project Id(2) with these names
OfProject(items) ==
    [i \in 1..Len(items) |-> [Id |-> items[i].Id, Name |-> items[i].Name,
                              Project |-> Id(2)]]

InitLookup ==
    /\ spaces \in SpaceLists
    /\ environments \in ItemLists
    /\ channels \in {OfProject(items) : items \in ItemLists}
    /\ projects = <<>> /\ lifecycles = <<>> /\ releases = <<>>
    /\ deployments = <<>> /\ machines = <<>>
    /\ nextId = FirstFreeId
    /\ \E qs \in {<<"f">>, <<"f", " ">>}, q \in Queries :
          args = [action |-> "none", octopus_space |-> qs, octopus_project |-> qs,
                  branch_name |-> q, deployment_step_name |-> StepName,
                  deployment_package_name |-> PackageName, target_name |-> None]
    /\ pc = "get_space_id"
    /\ attempt = 0 /\ elapsed = 0 /\ polls = 0
    /\ space_id = None /\ project_id = Id(2) /\ environment_id = None
    /\ lifecycle_id = None /\ channel_id = None
    /\ calls = <<>> /\ exc = "None" /\ run = 0
    /\ last = [action |-> "none", outcome |-> "none", stopped |-> "idle",
               environment_id |-> None, lifecycle_id |-> None, channel_id |-> None]
    /\ binder = [i \in 1..2 |-> NotCalled]

\* line 339, 351: get_space_id(args.octopus_space)
LookupSpace ==
    /\ pc = "get_space_id"
    /\ space_id' = get_space_id(args.octopus_space)
    /\ pc' = "get_resource_id"
    /\ UNCHANGED <<server, binder, args, attempt, elapsed, polls, project_id, environment_id,
                   lifecycle_id, channel_id, calls, exc, run, last>>

\* line 100: get_resource_id(space_id, "environments", branch_name)
LookupResource ==
    /\ pc = "get_resource_id"
    /\ environment_id' = get_resource_id(space_id, environments, args.branch_name)
    /\ pc' = "find_channel"
    /\ UNCHANGED <<server, binder, args, attempt, elapsed, polls, space_id, project_id,
                   lifecycle_id, channel_id, calls, exc, run, last>>

\* line 178: find_channel(space_id, project_id, branch_name)
LookupChannel ==
    /\ pc = "find_channel"
    /\ channel_id' = find_channel(space_id, project_id, args.branch_name)
    /\ pc' = "found"
    /\ UNCHANGED <<server, binder, args, attempt, elapsed, polls, space_id, project_id,
                   environment_id, lifecycle_id, calls, exc, run, last>>

NextLookup ==
    \/ LookupSpace
    \/ LookupResource
    \/ LookupChannel

Lookups == InitLookup /\ [][NextLookup]_vars

\* r is the identifier of an item named exactly as the trimmed query, or
\* None when there is no such item
ExactMatch(items, q, r) ==
    IF \E i \in 1..Len(items) : items[i].Name = strip(q)
    THEN \E i \in 1..Len(items) : items[i].Id = r /\ items[i].Name = strip(q)
    ELSE r = None

\* C15: get_space_id, get_resource_id and find_channel return the identifier
\* of an item whose name equals the trimmed query and None when no item has
\* that name, for every list of items and every query; an item whose name
\* only contains or extends the query is never returned.
C15_ExactMatchFiltering ==
    /\ pc \in {"get_resource_id", "find_channel", "found"} =>
          ExactMatch(spaces, args.octopus_space, space_id)
    /\ (pc \in {"find_channel", "found"} /\ space_id # None) =>
          ExactMatch(environments, args.branch_name, environment_id)
    /\ (pc = "found" /\ space_id # None) =>
          ExactMatch(channels, args.branch_name, channel_id)

\* the three locators were given names with blanks while the lists hold,
\* first, an item whose name extends the query: each returned the second item
C15_Witness ==
    /\ pc = "found"
    /\ args.octopus_space = <<"f", " ">> /\ args.branch_name = <<" ", "f", " ">>
    /\ Len(spaces) = 2 /\ space_id = Id(2)
    /\ environments = <<[Id |-> Id(1), Name |-> <<"f", "1">>],
                        [Id |-> Id(2), Name |-> <<"f">>]>>
    /\ environment_id = Id(2)
    /\ Len(channels) = 2 /\ channels[1].Name = <<"f", "1">> /\ channel_id = Id(2)

\* ------------------------------------------------------------ two invocations, one target
\* Two invocations of the script run at the same time for two branches and
\* name the same target.  Each is followed through its call of the Target
\* Binder: the lookup of the target, the GET of its representation, and the
\* PUT of the whole representation.  Invocation 1 works for the other
\* branch, invocation 2 for the branch of the command line.
BinderBranch(i) == IF i = 1 THEN OtherName ELSE args.branch_name

\* line 222, 325: target = get_response.json(), re-read when it is written
Representation_current(i) == Machine(binder[i].target.Id)

\* line 222, 325: target = get_response.json(), the copy the invocation holds
Representation(i) == binder[i].target

InitShared ==
    /\ Init
    /\ ScopeResolves
    /\ args.branch_name = BranchName
    /\ args.target_name = <<"t", " ">>

\* the call ends: it returns, or raises e
BinderReturn(i, e, wrote) ==
    binder' = [binder EXCEPT ![i].pc = "returned", ![i].exc = e, ![i].wrote = wrote]

\* line 346 / 363: the orchestrator calls assign_target or unassign_target
BinderCall(i) ==
    /\ binder[i].pc = "idle"
    /\ LET environment == get_resource_id(ResolvedSpace, environments, BinderBranch(i))
       IN  \/ \* assign_target(space_id, environment_id, args.target_name)
              /\ environment # None
              /\ binder' = [binder EXCEPT ![i].op = "assign", ![i].pc = "get",
                                          ![i].environment_id = environment]
           \/ \* unassign_target(space_id, args.branch_name, args.target_name)
              /\ binder' = [binder EXCEPT
                    ![i].op = "unassign",
                    ![i].pc = IF environment = None THEN "returned" ELSE "get",
                    ![i].environment_id = environment]
    /\ UNCHANGED <<server, args, pc, attempt, elapsed, polls, locals, calls, exc,
                   run, last>>

\* line 214-222 / 317-325: the target is looked up and fetched
BinderGet(i) ==
    /\ binder[i].pc = "get"
    /\ LET target_id == get_resource_id(ResolvedSpace, machines, args.target_name)
       IN  IF target_id = None
           THEN BinderReturn(i, "None", FALSE)
           ELSE \E get_response \in BOOLEAN :
                IF get_response
                THEN binder' = [binder EXCEPT ![i].pc = "put",
                                              ![i].target = Machine(target_id)]
                ELSE BinderReturn(i, "OctopusApiError", FALSE)
    /\ UNCHANGED <<server, args, pc, attempt, elapsed, polls, locals, calls, exc,
                   run, last>>

\* line 224-231 / 327-334: the test of the assignment set and the write
BinderPut(i) ==
    /\ binder[i].pc = "put"
    /\ LET target == Representation(i)
           environment == binder[i].environment_id
           updated == [target EXCEPT !.EnvironmentIds =
                          IF binder[i].op = "assign" THEN Append(@, environment)
                          ELSE SelectSeq(@, LAMBDA a : a # environment)]
           writes == IF binder[i].op = "assign"
                     THEN index(target.EnvironmentIds, environment) = -1
                     ELSE index(target.EnvironmentIds, environment) # -1
       IN  IF ~Has(target.EnvironmentIds, environment)
           THEN \* list.index raises
                /\ BinderReturn(i, "ValueError", FALSE)
                /\ UNCHANGED machines
           ELSE IF writes
           THEN \E put_response \in BOOLEAN :
                IF put_response
                THEN /\ machines' = PutMachine(updated)
                     /\ BinderReturn(i, "None", TRUE)
                ELSE /\ BinderReturn(i, "OctopusApiError", FALSE)
                     /\ UNCHANGED machines
           ELSE /\ BinderReturn(i, "None", FALSE)
                /\ UNCHANGED machines
    /\ UNCHANGED <<spaces, projects, environments, lifecycles, channels, releases,
                   deployments, nextId, args, pc, attempt, elapsed, polls, locals,
                   calls, exc, run, last>>

NextShared ==
    \/ \E i \in 1..2 : BinderCall(i)
    \/ \E i \in 1..2 : BinderGet(i)
    \/ \E i \in 1..2 : BinderPut(i)

Shared == InitShared /\ [][NextShared]_vars

\* the assignment set of the target the invocation fetched
Assigned(i) == Machine(binder[i].target.Id).EnvironmentIds

\* C16: a write of the Target Binder stores the assignment set the invocation
\* fetched, changed by its own environment id only, whatever the server holds
\* by then: nothing the other invocation wrote since the fetch is kept, and
\* no write is refused because the target changed.
C16_LostUpdate ==
    [][\A i \in 1..2 :
          (binder[i].pc = "put" /\ binder'[i].wrote) =>
             Assigned(i)' =
                IF binder[i].op = "assign"
                THEN Append(binder[i].target.EnvironmentIds, binder[i].environment_id)
                ELSE SelectSeq(binder[i].target.EnvironmentIds,
                               LAMBDA a : a # binder[i].environment_id)]_vars

\* both invocations fetched the target before either wrote, both writes
\* succeeded, and the target still holds the environment id that one of them
\* removed
C16_Witness ==
    /\ \A i \in 1..2 : binder[i].pc = "returned" /\ binder[i].wrote
                         /\ binder[i].exc = "None" /\ binder[i].op = "unassign"
    /\ binder[1].environment_id # binder[2].environment_id
    /\ \E i \in 1..2 : Has(Assigned(i), binder[i].environment_id)

\* the tasks of the deployments of the branch channel, by completion
ChannelTasks(completed) ==
    LET channel == find_channel(space_id, project_id, args.branch_name)
    IN  {deployments[i].TaskId : i \in
            {j \in 1..Len(deployments) :
                /\ channel # None
                /\ deployments[j].ChannelId = channel
                /\ deployments[j].IsCompleted = completed}}
\* the cancel requests the step has issued
Cancels == {i \in NewCalls : calls'[i].kind = "cancel"}

\* C17: a call of cancel_tasks requests cancellation only of tasks of the
\* branch channel that are not completed; when it returns it has requested
\* each of them once and returns the number of requests; without a channel
\* it issues no request and returns 0.
C17_CancelExactlyActive ==
    [][(Running("delete") /\ pc = "cancel_tasks"
          /\ ~(space_id # None /\ project_id = None)) =>
          /\ \A i \in Cancels : calls'[i].id \in ChannelTasks(FALSE)
          /\ \A i \in 1..Len(deployments) :
                (deployments'[i].Cancelled /\ ~deployments[i].Cancelled) =>
                   deployments[i].TaskId \in ChannelTasks(FALSE)
          /\ pc' \in {"sleep", "delete_releases"} =>
                /\ {calls'[i].id : i \in Cancels} = ChannelTasks(FALSE)
                /\ Cardinality(Cancels) = Cardinality(ChannelTasks(FALSE))
                /\ calls'[Len(calls')].op = "RETURN"
                /\ calls'[Len(calls')].count = Cardinality(Cancels)
                /\ find_channel(space_id, project_id, args.branch_name) = None =>
                      (Cancels = {} /\ calls'[Len(calls')].count = 0)]_vars

\* the first call of cancel_tasks met a completed and a running task of the
\* branch channel: it sent one request, for the running one, and returned 1
C17_Witness ==
    /\ Running("delete") /\ pc = "sleep"
    /\ Len(calls) = 2
    /\ calls[1].kind = "cancel" /\ calls[1].id = Id(14) /\ calls[2].count = 1
    /\ \E i, j \in 1..Len(deployments) :
          /\ deployments[i].TaskId = Id(13) /\ deployments[i].IsCompleted
          /\ ~deployments[i].Cancelled
          /\ deployments[j].TaskId = Id(14) /\ deployments[j].Cancelled

\* C18: the channel that create_channel creates carries, as the project
\* reference of its payload, the identifier of the resolved project, to whose
\* channel collection the create call is addressed.
C18_ChannelOfResolvedProject ==
    [][Running("create") =>
          \A i \in Posts("channels") :
             calls'[i].ok =>
                /\ channels'[Len(channels')].Project = project_id
                /\ channels'[Len(channels')].ProjectId = project_id]_vars

\* the channels of the resolved project
ProjectChannels(items) == SelectSeq(items, LAMBDA a : a.Project = ResolvedProject)
\* the machines the command line's target name names
NamedTargets(items) == SelectSeq(items, LAMBDA m : m.Name = strip(args.target_name))
\* the step ends a delete invocation without an exception
DeleteReturns ==
    /\ Running("delete") /\ ScopeResolves
    /\ pc' = "idle" /\ last'.outcome = "Done"

\* C19: when delete_feature_branch returns, with the space and the project
\* resolved, the project has no channel, and the space no lifecycle and no
\* environment, named after the branch; every release left belongs to a
\* channel that exists, and every environment id assigned to the named target
\* is the id of an environment that exists.
C19_TeardownPostcondition ==
    [][DeleteReturns =>
          /\ Named(ProjectChannels(channels')) = <<>>
          /\ Named(lifecycles') = <<>>
          /\ Named(environments') = <<>>
          /\ \A i \in 1..Len(releases') : releases'[i].ChannelId \in Ids(channels')
          /\ \A i \in 1..Len(NamedTargets(machines')) :
                \A j \in 1..Len(NamedTargets(machines')[i].EnvironmentIds) :
                   NamedTargets(machines')[i].EnvironmentIds[j] \in Ids(environments')]_vars

\* a delete invocation returned after it deleted the release, wrote the
\* target without the environment id and deleted the environment
C19_Witness ==
    /\ args.action = "delete" /\ pc = "idle" /\ last.outcome = "Done"
    /\ ScopeResolves
    /\ \E i, j, k \in 1..Len(calls) :
          /\ i < j /\ j < k
          /\ calls[i].op = "DELETE" /\ calls[i].kind = "releases"
          /\ calls[j].op = "PUT" /\ calls[j].kind = "machines" /\ calls[j].ok
          /\ calls[k].op = "DELETE" /\ calls[k].kind = "environments" /\ calls[k].ok
    /\ Named(environments) = <<>>
    /\ Len(NamedTargets(machines)) = 1

\* the resources with another name
Others(items) == SelectSeq(items, LAMBDA a : a.Name # strip(args.branch_name))

\* C20: no step of delete_feature_branch changes a channel, lifecycle or
\* environment with another name, removes a release of a channel other than
\* the project's channel named after the branch, or changes, in the
\* assignment set of a target, any id but the branch environment's.
C20_TeardownFrame ==
    [][Running("delete") =>
          /\ spaces' = spaces /\ projects' = projects
          /\ Others(environments') = Others(environments)
          /\ Others(lifecycles') = Others(lifecycles)
          /\ Others(channels') = Others(channels)
          /\ \A i \in 1..Len(releases) :
                releases[i].ChannelId \notin Ids(Named(ProjectChannels(channels))) =>
                   \E j \in 1..Len(releases') : releases'[j] = releases[i]
          /\ Len(machines') = Len(machines)
          /\ \A i \in 1..Len(machines) :
                /\ machines'[i].Id = machines[i].Id
                /\ machines'[i].Name = machines[i].Name
                /\ SelectSeq(machines'[i].EnvironmentIds,
                             LAMBDA a : a \notin Ids(Named(environments)))
                   = SelectSeq(machines[i].EnvironmentIds,
                               LAMBDA a : a \notin Ids(Named(environments)))]_vars

\* a delete invocation removed the branch's release, channel, lifecycle,
\* assignment and environment, and the other branch's resources are all there
C20_Witness ==
    /\ args.action = "delete" /\ pc = "idle" /\ last.outcome = "Done"
    /\ Len(calls) >= 5 /\ \A i \in 1..Len(calls) : calls[i].ok
    /\ environments = <<OtherEnvironment>>
    /\ lifecycles = <<OtherLifecycle>>
    /\ channels = <<OtherChannel>>
    /\ releases = <<OtherRelease>>
    /\ machines[1].EnvironmentIds = <<OtherEnvironment.Id>>

=============================================================================
